---- MODULE Spec2Model ----
(***************************************************************************)
(* Housekeeper scheduler of the mail server                                *)
(* (crates/jmap/src/services/housekeeper.rs): the Queue of timed actions,  *)
(* the scheduler task with its inbox, and the background tasks it spawns.  *)
(* Time is counted in hours: Duration::from_secs(3600) is 1.               *)
(* BootManager::init (crates/common/src/manager/boot.rs): the steps of the *)
(* start-up, from the configuration path to the shared core.               *)
(***************************************************************************)
EXTENDS Integers, Sequences, FiniteSets, Bags, TLC

\* ---------------------------------------------------------------- bounds
\* instants run from 0 to MaxTime
MaxTime == 1
\* the longest delay a cron, a renewal or a license returns
MaxDelay == 1
\* capacity of the channel in the model (IPC_CHANNEL_BUFFER in the program)
InboxCap == 1
\* events other subsystems post in one run of Spec
MaxEnv == 1
\* events the indexing subsystem posts in one run of IndexSpec
MaxStarts == 3
\* size of the heap in QueueSpec
MaxHeap == 3
\* config_version is followed up to MaxVersion
MaxVersion == 2

\* ------------------------------------------------------ program constants
\* crate::LONG_SLUMBER, one day
LONG_SLUMBER == 24
\* Duration::from_secs(3600), the delay after a failed renewal
RenewRetry == 1

\* identifiers of the ACME providers and indexes of the purge schedules
Providers == {1}
StoreIdx == {0}

\* ------------------------------------------------------------ ActionClass
Session == [kind |-> "Session", arg |-> 0]
Account == [kind |-> "Account", arg |-> 0]
Store(idx) == [kind |-> "Store", arg |-> idx]
Acme(id) == [kind |-> "Acme", arg |-> id]
ReloadLicense == [kind |-> "ReloadLicense", arg |-> 0]

ActionClass ==
    {Session, Account, ReloadLicense}
        \cup {Store(i) : i \in StoreIdx} \cup {Acme(p) : p \in Providers}

Action(due, event) == [due |-> due, event |-> event]

\* ------------------------------------------------------------------ Queue
\* std::cmp::Ordering as -1 (Less), 0 (Equal), 1 (Greater)
OrdCmp(a, b) == IF a < b THEN -1 ELSE IF a = b THEN 0 ELSE 1

Reverse(o) == 0 - o

\* the order of the dues without the reverse
cmp_forward(self, other) == OrdCmp(self.due, other.due)

\* impl Ord for Action
cmp(self, other) == Reverse(OrdCmp(self.due, other.due))

\* BinaryHeap::peek: a greatest element of the heap under cmp.  The order
\* among equal elements is not specified, so every greatest element is a
\* possible head.
Heads(heap) ==
    {a \in BagToSet(heap) : \A b \in BagToSet(heap) : cmp(a, b) >= 0}

\* a difference that does not saturate
duration_since(later, earlier) == later - earlier

\* Instant::saturating_duration_since
saturating_duration_since(later, earlier) ==
    IF later >= earlier THEN later - earlier ELSE 0

schedule(heap, due, event) == heap (+) SetToBag({Action(due, event)})

\* a retain whose test is inverted
remove_action_inverted(heap, event) ==
    LET keep == {e \in BagToSet(heap) : e.event = event}
    IN  [e \in keep |-> heap[e]]

remove_action(heap, event) ==
    LET keep == {e \in BagToSet(heap) : e.event # event}
    IN  [e \in keep |-> heap[e]]

wake_up_time(heap, t) ==
    IF Heads(heap) = {}
    THEN LONG_SLUMBER
    ELSE saturating_duration_since((CHOOSE e \in Heads(heap) : TRUE).due, t)

\* a pop that takes any action that is due, not the head of the heap
pop_any(heap, t) ==
    IF \E e \in BagToSet(heap) : e.due <= t
    THEN {[res |-> {e}, heap |-> heap (-) SetToBag({e})] :
            e \in {x \in BagToSet(heap) : x.due <= t}}
    ELSE {[res |-> {}, heap |-> heap]}

\* Queue::pop at time t: the possible outcomes, each the returned option
\* (a set with no or one Action) and the heap left behind.
pop(heap, t) ==
    IF Heads(heap) = {}
    THEN {[res |-> {}, heap |-> heap]}
    ELSE {IF e.due <= t
          THEN [res |-> {e}, heap |-> heap (-) SetToBag({e})]
          ELSE [res |-> {}, heap |-> heap] : e \in Heads(heap)}

\* number of Actions of a class in a heap, and their dues
CountOf(heap, event) ==
    BagCardinality([e \in {x \in BagToSet(heap) : x.event = event} |-> heap[e]])
DuesOf(heap, event) == {e.due : e \in {x \in BagToSet(heap) : x.event = event}}

\* ------------------------------------------------------------------ Event
Ev(type, id, t) == [type |-> type, id |-> id, t |-> t]
IndexStartEv == Ev("IndexStart", 0, 0)
IndexDoneEv == Ev("IndexDone", 0, 0)
AcmeReloadEv == Ev("AcmeReload", 0, 0)
AcmeRescheduleEv(provider_id, renew_at) == Ev("AcmeReschedule", provider_id, renew_at)
PurgeEv == Ev("Purge", 0, 0)
ExitEv == Ev("Exit", 0, 0)

\* events other subsystems post to the housekeeper
EnvEvents == {IndexStartEv, AcmeReloadEv, PurgeEv, ExitEv}

\* ------------------------------------------------------------ Shared Core
\* The part of a Core snapshot the housekeeper reads: the number of purge
\* schedules, the ACME providers and whether an enterprise license is loaded.
Core(nstores, providers, license) ==
    [nstores |-> nstores, providers |-> providers, license |-> license]

\* the snapshots a boot or a reload can produce: everything configured, or
\* no purge schedule, no provider and no license
Cores == {Core(Cardinality(StoreIdx), Providers, TRUE), Core(0, {}, FALSE)}

\* cron.time_to_next(), the delay to the next occurrence, and
\* license.expires_in() of a loaded license, which has not expired
Delays == 1..MaxDelay
\* delays returned by init_acme and renew
Durations == 0..MaxDelay

\* -------------------------------------------------------- background tasks
\* kind: "index" (fts_index_queued), "renew", "init" (the AcmeReload task,
\* rest the providers it has still to initialise), "cache" (session and
\* account purges) and "purge" (store purges); msg is the event the task is
\* waiting to post
Task(kind, id, rest) == [kind |-> kind, id |-> id, rest |-> rest, msg |-> <<>>]
IndexTask == Task("index", 0, {})
RenewTask(id) == Task("renew", id, {})
InitTask(providers) == Task("init", 0, providers)
CacheTask == Task("cache", 0, {})
PurgeTask == Task("purge", 0, {})

\* Purge tasks report nothing back: the model keeps whether one of a kind is
\* outstanding, not how many.
Spawn(bag, tk) ==
    IF tk.kind \in {"cache", "purge"} /\ BagIn(tk, bag)
    THEN bag
    ELSE bag (+) SetToBag({tk})
Finish(bag, tk) == bag (-) SetToBag({tk})

\* ---------------------------------------------------------------- history
NoClass == [kind |-> "none", arg |-> 0]
\* the step just taken: its name, the class and instant it concerns, the
\* number of tasks it spawned, a count taken before it, the actions a whole
\* drain dispatched, and the dues the class had in the queue before the step
Last(op, cls, t, n, k, disp) ==
    [op |-> op, cls |-> cls, t |-> t, n |-> n, k |-> k, disp |-> disp, was |-> {}]
\* the actions a drain dispatched: each with the order of its calls, and the
\* dues in the order of dispatch
NoDisp == [fired |-> {}, dues |-> <<>>]
Step(op) == Last(op, NoClass, 0, 0, 0, NoDisp)
NoLast == Step("none")

\* ============================================ BootManager::init: the data
\* (crates/common/src/manager/boot.rs)
HostnameKey == "lookup.default.hostname"
OAuthKey == "oauth.key"
SpamVersionKey == "version.spam-filter"
DataKey == "storage.data"
BlobKey == "storage.blob"
\* a key of the rule pack that is no default setting
RuleKey == "spam-filter.rule"

ConfigKey(key, value) == [key |-> key, value |-> value]

\* the default settings, in the order of the array
DefaultSettings ==
    <<ConfigKey("queue.quota.size.messages", "100000"),
      ConfigKey("queue.quota.size.size", "10737418240"),
      ConfigKey("queue.quota.size.enable", "true"),
      ConfigKey("queue.throttle.rcpt.key", "rcpt_domain"),
      ConfigKey("queue.throttle.rcpt.concurrency", "5"),
      ConfigKey("queue.throttle.rcpt.enable", "true"),
      ConfigKey("session.throttle.ip.key", "remote_ip"),
      ConfigKey("session.throttle.ip.concurrency", "5"),
      ConfigKey("session.throttle.ip.enable", "true"),
      ConfigKey("session.throttle.sender.key.0", "sender_domain"),
      ConfigKey("session.throttle.sender.key.1", "rcpt"),
      ConfigKey("session.throttle.sender.rate", "25/1h"),
      ConfigKey("session.throttle.sender.enable", "true"),
      ConfigKey("report.analysis.addresses", "postmaster@*")>>

\* Config::default()
NoKeys == [k \in {} |-> ""]
NoConfig == [keys |-> NoKeys, errors |-> {}]

\* config.value(key).filter(|v| !v.is_empty()).is_none()
Missing(keys, key) == key \notin DOMAIN keys \/ keys[key] = ""

\* config.value(key).is_some()
Present(keys, key) == key \in DOMAIN keys

\* an insert that keeps the value of a key that is there
insert_absent(keys, key, value) ==
    [k \in DOMAIN keys \cup {key} |-> IF k \in DOMAIN keys THEN keys[k] ELSE value]

\* config.keys.insert(key, value)
Insert(keys, key, value) ==
    [k \in DOMAIN keys \cup {key} |-> IF k = key THEN value ELSE keys[k]]

\* for item in &insert_keys { config.keys.insert(..) }
RECURSIVE InsertAll(_, _)
InsertAll(keys, items) ==
    IF items = <<>> THEN keys
    ELSE InsertAll(Insert(keys, Head(items).key, Head(items).value), Tail(items))

\* config.new_build_error("*", message)
new_build_error(config, message) == [config EXCEPT !.errors = @ \cup {message}]

\* the settings a configuration file or the backing store may hold: each key
\* absent or with one of its values
Settings(values) ==
    UNION {{f \in [S -> UNION {values[k] : k \in S}] : \A k \in S : f[k] \in values[k]}
              : S \in SUBSET DOMAIN values}

\* what the local file parses to
LocalFiles ==
    Settings([k \in {HostnameKey, SpamVersionKey, DataKey, BlobKey,
                     "queue.throttle.rcpt.concurrency"} |->
                 IF k = HostnameKey THEN {"", "mx.example.org"}
                 ELSE IF k = SpamVersionKey THEN {"1.0"}
                 ELSE IF k \in {DataKey, BlobKey} THEN {"db"}
                 ELSE {"20"}])

\* the local file: missing, not a configuration, or one that parses to keys
Files(settings) ==
    {[is |-> "unreadable", keys |-> NoKeys], [is |-> "invalid", keys |-> NoKeys]}
        \cup {[is |-> "ok", keys |-> keys] : keys \in settings}

\* what the backing store holds
StoredSettings ==
    Settings([k \in {OAuthKey, RuleKey} |->
                 IF k = OAuthKey THEN {"secret"} ELSE {"custom"}])

\* external_config.keys of a rule pack
RulePacks ==
    {<<ConfigKey(SpamVersionKey, "2.0")>>,
     <<ConfigKey(SpamVersionKey, "2.0"), ConfigKey(RuleKey, "pack")>>}

\* std::env::args() after the program name: a word is --key=value, --key or
\* a plain word
Word(dashes, key, eq, value) ==
    [dashes |-> dashes, key |-> key, eq |-> eq, value |-> value]

ArgLists ==
    {<<>>,
     <<Word(TRUE, "config", TRUE, "/etc/config.toml")>>,
     <<Word(TRUE, "config", FALSE, ""), Word(FALSE, "/etc/config.toml", FALSE, "")>>,
     <<Word(TRUE, "config", FALSE, "")>>,
     <<Word(TRUE, "init", FALSE, ""), Word(FALSE, "/opt/mail", FALSE, "")>>,
     <<Word(TRUE, "verbose", TRUE, "1")>>,
     <<Word(TRUE, "init", TRUE, "/opt/mail"), Word(TRUE, "config", TRUE, "/etc/config.toml")>>,
     <<Word(FALSE, "/etc/config.toml", FALSE, "")>>}

\* Option<String>
None == [some |-> FALSE, value |-> ""]
Some(value) == [some |-> TRUE, value |-> value]

\* what the resolution of the path gave
Resolved(out, path, msg) == [out |-> out, path |-> path, msg |-> msg]

\* the explicit argument after CONFIG_PATH
ResolvePathEnvFirst(optional_config_path, env, args) ==
    IF env.some THEN Resolved("path", env, "")
    ELSE IF optional_config_path.some THEN Resolved("path", optional_config_path, "")
    ELSE Resolved("failed", None, "Missing parameter --config=<path-to-config>.")

\* lines 58-98: the configuration path, the quickstart, or failed(..)
ResolvePath(optional_config_path, env, args) ==
    LET invalid == Resolved("failed", None, "Invalid command line argument")
        cli ==
            IF args # <<>> /\ args[1].dashes
            THEN IF ~args[1].eq /\ Len(args) < 2
                 THEN invalid
                 ELSE IF args[1].key = "config"
                      THEN Resolved("path",
                                    Some(IF args[1].eq THEN args[1].value
                                         ELSE args[2].key), "")
                      ELSE IF args[1].key = "init"
                           THEN Resolved("quickstart", None, "")
                           ELSE invalid
            ELSE Resolved("path", None, "")
        found ==
            IF optional_config_path.some
            THEN Resolved("path", optional_config_path, "")
            ELSE IF env.some THEN Resolved("path", env, "") ELSE cli
    IN  IF found.out = "path" /\ ~found.path.some
        THEN Resolved("failed", None, "Missing parameter --config=<path-to-config>.")
        ELSE found

\* the steps with the stores loaded before the ports are bound
StagesStoresFirst ==
    <<"path", "read", "servers", "stores", "bind", "extend", "seed", "spam",
      "webadmin", "persist", "lookups", "core", "acceptors", "returned">>

\* the steps of init in the order of the function
Stages ==
    <<"path", "read", "servers", "bind", "stores", "extend", "seed", "spam",
      "webadmin", "persist", "lookups", "core", "acceptors", "returned">>

\* the process at the call of init: root, nothing bound, nothing read
Boot0 ==
    [pc |-> "path", at |-> "path", privileged |-> TRUE, bound |-> FALSE,
     config |-> NoConfig, data |-> FALSE, blob |-> FALSE, cfg_store |-> FALSE,
     insert_keys |-> <<>>, set_keys |-> <<>>, log |-> <<>>,
     before |-> NoKeys, fetch |-> "none",
     file |-> [is |-> "unreadable", keys |-> NoKeys], store |-> NoKeys,
     run |-> 1, prev |-> <<>>, resolved |-> <<>>]

\* the process at the call of init with the local file and the backing store
\* as they are on disk
BootWith(file, store) == [Boot0 EXCEPT !.file = file, !.store = store]

\* init has returned; the housekeeper's specifications start here and do not
\* follow what boot left
Booted ==
    [Boot0 EXCEPT !.pc = "returned", !.at = "returned", !.privileged = FALSE,
                  !.bound = TRUE]

\* a reader of the snapshot and of config_version that has loaded nothing,
\* and the scheduler outside its publish: stored counts the snapshots
\* stored, epoch is that count when the reader loaded the snapshot
Reader0 ==
    [at |-> "idle", first |-> "none", version |-> 0, epoch |-> 0, stored |-> 0,
     storing |-> FALSE]

VARIABLES
    reader,        \* a concurrent reader, and the publish it runs against
    boot,          \* BootManager::init: its position and what it has built
    pc,            \* position of the scheduler task
    now,           \* Instant::now()
    queue,         \* queue.heap
    deadline,      \* instant at which the pending timeout elapses
    inbox,         \* events in the channel
    closed,        \* every Sender of the channel has been dropped
    index_busy,
    index_pending,
    core,          \* core.core, the current snapshot
    core_,         \* the snapshot the scheduler loaded
    todo,          \* providers the initial schedule has still to initialise
    tasks,         \* spawned tasks that have not finished
    envSent,       \* number of events the environment has posted
    last,          \* history: the step just taken
    collapsed,     \* history: IndexStart events processed while busy since the last spawn
    owed,          \* history: an IndexStart was processed and no indexer spawned since
    dispatched,    \* history: actions dispatched by the drain that is suspended
    qlast,         \* history: the last call on the Queue in QueueSpec
    config_version, \* jmap_inner.config_version
    hiDue          \* history: the greatest due dispatched by the drains that ended

vars ==
    <<reader, boot, pc, now, queue, deadline, inbox, closed, index_busy, index_pending, core,
      core_, todo, tasks, envSent, last, collapsed, owed, dispatched, qlast,
      config_version, hiDue>>

\* what only the scheduler task changes
schedVars ==
    <<pc, queue, deadline, index_busy, index_pending, core, core_, todo, collapsed,
      owed, dispatched>>

\* top of the loop: timeout(queue.wake_up_time(), rx.recv())
WakeAt(heap) == now + wake_up_time(heap, now)

NoCall == [op |-> "none", heap |-> EmptyBag, t |-> 0, res |-> {}, wake |-> 0]

\* the state at the call of spawn_housekeeper, with snapshot c current
InitWith(c) ==
    /\ pc = "boot"
    /\ now = 0
    /\ queue = EmptyBag
    /\ deadline = 0
    /\ inbox = <<>>
    /\ closed = FALSE
    /\ index_busy = FALSE
    /\ index_pending = FALSE
    /\ core = c
    /\ core_ = c
    /\ todo = {}
    /\ tasks = EmptyBag
    /\ envSent = 0
    /\ last = NoLast
    /\ collapsed = 0
    /\ owed = FALSE
    /\ dispatched = NoDisp
    /\ qlast = NoCall
    /\ config_version = 0
    /\ hiDue = 0
    /\ reader = Reader0

Init == \E c \in Cores : InitWith(c) /\ boot = Booted

\* --------------------------------------------------- scheduler: start-up
\* The task starts: the first indexer is spawned and Session, Account and
\* every Store(idx) are scheduled; then the providers are initialised.
Start ==
    /\ pc = "boot"
    /\ index_busy' = TRUE
    /\ index_pending' = FALSE
    /\ tasks' = Spawn(tasks, IndexTask)
    /\ core_' = core
    /\ \E ds \in Delays, da \in Delays, dt \in [StoreIdx -> Delays] :
        LET q1 == schedule(queue, now + ds, Session)
            q2 == schedule(q1, now + da, Account)
            st == {Action(now + dt[i], Store(i)) : i \in {j \in StoreIdx : j < core.nstores}}
        IN  queue' = q2 (+) SetToBag(st)
    /\ todo' = core.providers
    /\ pc' = "init_acme"
    /\ last' = Last("Start", NoClass, 0, 1, 0, NoDisp)
    /\ UNCHANGED <<reader, boot, config_version, hiDue, now, deadline, inbox, closed, core, envSent, collapsed, owed,
                   dispatched, qlast>>

\* core_.init_acme(provider).await returns Ok(renew_at)
InitAcmeOk ==
    /\ pc = "init_acme"
    /\ \E p \in todo, renew_at \in Durations :
        /\ queue' = schedule(queue, now + renew_at, Acme(p))
        /\ todo' = todo \ {p}
        /\ last' = Last("InitAcmeOk", Acme(p), now + renew_at, 0, 0, NoDisp)
    /\ UNCHANGED <<reader, boot, config_version, hiDue, pc, now, deadline, inbox, closed, index_busy, index_pending, core,
                   core_, tasks, envSent, collapsed, owed, dispatched, qlast>>

\* core_.init_acme(provider).await returns Err: logged
InitAcmeErr ==
    /\ pc = "init_acme"
    /\ \E p \in todo :
        /\ todo' = todo \ {p}
        /\ last' = Last("InitAcmeErr", Acme(p), 0, 0, 0, NoDisp)
    /\ UNCHANGED <<reader, boot, config_version, hiDue, pc, now, queue, deadline, inbox, closed, index_busy, index_pending,
                   core, core_, tasks, envSent, collapsed, owed, dispatched, qlast>>

\* After the providers: ReloadLicense when an enterprise license is loaded,
\* then the first iteration of the loop.
EnterLoop ==
    /\ pc = "init_acme"
    /\ todo = {}
    /\ \E expires_in \in Delays :
        queue' = IF core_.license
                 THEN schedule(queue, now + expires_in, ReloadLicense)
                 ELSE queue
    /\ pc' = "wait"
    /\ deadline' = WakeAt(queue')
    /\ last' = Step("EnterLoop")
    /\ UNCHANGED <<reader, boot, config_version, hiDue, now, inbox, closed, index_busy, index_pending, core, core_, todo,
                   tasks, envSent, collapsed, owed, dispatched, qlast>>

\* ---------------------------------------------------- scheduler: the inbox
Recv(type) == pc = "wait" /\ inbox # <<>> /\ Head(inbox).type = type

\* Event::AcmeReload: a task initialises every provider of the snapshot
OnAcmeReload ==
    /\ Recv("AcmeReload")
    /\ inbox' = Tail(inbox)
    /\ tasks' = IF core.providers = {}
                THEN tasks
                ELSE Spawn(tasks, InitTask(core.providers))
    /\ deadline' = WakeAt(queue)
    /\ last' = Last("AcmeReload", NoClass, 0, 1, 0, NoDisp)
    /\ UNCHANGED <<reader, boot, config_version, hiDue, pc, now, queue, closed, index_busy, index_pending, core, core_, todo,
                   envSent, collapsed, owed, dispatched, qlast>>

\* a reschedule that does not remove first
AcmeRescheduledKeeps(heap, provider_id, renew_at) ==
    schedule(heap, renew_at, Acme(provider_id))

\* Event::AcmeReschedule { provider_id, renew_at }
AcmeRescheduled(heap, provider_id, renew_at) ==
    schedule(remove_action(heap, Acme(provider_id)), renew_at, Acme(provider_id))

OnAcmeReschedule ==
    /\ Recv("AcmeReschedule")
    /\ inbox' = Tail(inbox)
    /\ queue' = AcmeRescheduled(queue, Head(inbox).id, Head(inbox).t)
    /\ deadline' = WakeAt(queue')
    /\ last' = [Last("AcmeReschedule", Acme(Head(inbox).id), Head(inbox).t, 0,
                      CountOf(queue, Acme(Head(inbox).id)), NoDisp)
                 EXCEPT !.was = DuesOf(queue, Acme(Head(inbox).id))]
    /\ UNCHANGED <<reader, boot, config_version, hiDue, pc, now, closed, index_busy, index_pending, core, core_, todo, tasks,
                   envSent, collapsed, owed, dispatched, qlast>>

\* an IndexStart that does not look at index_busy
IndexStartAlwaysSpawns(busy) == TRUE

\* Event::IndexStart
IndexStartSpawns(busy) == ~busy

OnIndexStart ==
    /\ Recv("IndexStart")
    /\ inbox' = Tail(inbox)
    /\ IF IndexStartSpawns(index_busy)
       THEN /\ index_busy' = TRUE
            /\ tasks' = Spawn(tasks, IndexTask)
            /\ index_pending' = index_pending
            /\ collapsed' = 0
            /\ owed' = FALSE
            /\ last' = Last("IndexStart", NoClass, 0, 1, collapsed, NoDisp)
       ELSE /\ index_pending' = TRUE
            /\ index_busy' = index_busy
            /\ tasks' = tasks
            /\ collapsed' = collapsed + 1
            /\ owed' = TRUE
            /\ last' = Last("IndexStart", NoClass, 0, 0, collapsed, NoDisp)
    /\ deadline' = WakeAt(queue)
    /\ UNCHANGED <<reader, boot, config_version, hiDue, pc, now, queue, closed, core, core_, todo, envSent, dispatched,
                   qlast>>

\* an IndexDone that forgets the pending request
IndexDoneNeverSpawns(pending) == FALSE

\* an IndexDone that always starts another indexer
IndexDoneAlwaysSpawns(pending) == TRUE

\* Event::IndexDone
IndexDoneSpawns(pending) == pending

OnIndexDone ==
    /\ Recv("IndexDone")
    /\ inbox' = Tail(inbox)
    /\ IF IndexDoneSpawns(index_pending)
       THEN /\ index_pending' = FALSE
            /\ index_busy' = index_busy
            /\ tasks' = Spawn(tasks, IndexTask)
            /\ collapsed' = 0
            /\ owed' = FALSE
            /\ last' = Last("IndexDone", NoClass, 0, 1, collapsed, NoDisp)
       ELSE /\ index_busy' = FALSE
            /\ index_pending' = index_pending
            /\ tasks' = tasks
            /\ collapsed' = collapsed
            /\ owed' = owed
            /\ last' = Last("IndexDone", NoClass, 0, 0, collapsed, NoDisp)
    /\ deadline' = WakeAt(queue)
    /\ UNCHANGED <<reader, boot, config_version, hiDue, pc, now, queue, closed, core, core_, todo, envSent, dispatched,
                   qlast>>

\* Event::Purge(purge): every PurgeType spawns one purge task
OnPurge ==
    /\ Recv("Purge")
    /\ inbox' = Tail(inbox)
    /\ tasks' = Spawn(tasks, PurgeTask)
    /\ deadline' = WakeAt(queue)
    /\ last' = Last("Purge", NoClass, 0, 1, 0, NoDisp)
    /\ UNCHANGED <<reader, boot, config_version, hiDue, pc, now, queue, closed, index_busy, index_pending, core, core_, todo,
                   envSent, collapsed, owed, dispatched, qlast>>

\* Event::Exit: the task returns and the receiver is dropped
OnExit ==
    /\ Recv("Exit")
    /\ inbox' = <<>>
    /\ pc' = "exit"
    /\ last' = Step("Exit")
    /\ UNCHANGED <<reader, boot, config_version, hiDue, now, queue, deadline, closed, index_busy, index_pending, core, core_,
                   todo, tasks, envSent, collapsed, owed, dispatched, qlast>>

\* Ok(None): the channel is closed and empty
OnClosed ==
    /\ pc = "wait"
    /\ inbox = <<>>
    /\ closed
    /\ pc' = "exit"
    /\ last' = Step("Closed")
    /\ UNCHANGED <<reader, boot, config_version, hiDue, now, queue, deadline, inbox, closed, index_busy, index_pending, core,
                   core_, todo, tasks, envSent, collapsed, owed, dispatched, qlast>>

\* ------------------------------------------------ scheduler: timer branch
\* A drain in progress: the heap, the tasks, the actions dispatched so far
\* (each with the order of its spawn and schedule calls) and whether the
\* scheduler is suspended in core_.reload().await
Draining(heap, tks, disp, susp) ==
    [heap |-> heap, tasks |-> tks, disp |-> disp, susp |-> susp]
Fired(disp, e, ops) ==
    [fired |-> disp.fired \cup {[event |-> e.event, due |-> e.due, ops |-> ops,
                                 res |-> <<>>]},
     dues |-> Append(disp.dues, e.due)]

\* ActionClass::Acme(provider_id): the spawned task renews when the provider
\* is in the snapshot and ends at once when it is not; nothing is scheduled
DispatchAcme(st, e, c) ==
    Draining(st.heap,
             IF e.event.arg \in c.providers
             THEN Spawn(st.tasks, RenewTask(e.event.arg))
             ELSE st.tasks,
             Fired(st.disp, e, <<"spawn">>), FALSE)

\* ActionClass::Account: spawn the purge, then schedule the next one
DispatchAccount(st, e, d) ==
    Draining(schedule(st.heap, now + d, Account), Spawn(st.tasks, CacheTask),
             Fired(st.disp, e, <<"spawn", "schedule">>), FALSE)

\* a Session that spawns the purge and schedules nothing
DispatchSessionOnce(st, e, d) ==
    Draining(st.heap, Spawn(st.tasks, CacheTask), Fired(st.disp, e, <<"spawn">>), FALSE)

\* ActionClass::Session: spawn the purge, then schedule the next one
DispatchSession(st, e, d) ==
    Draining(schedule(st.heap, now + d, Session), Spawn(st.tasks, CacheTask),
             Fired(st.disp, e, <<"spawn", "schedule">>), FALSE)

\* purge_schedules.get(idx)
HasSchedule(c, idx) == idx < c.nstores

\* a Store that spawns the purge before it schedules the next one
DispatchStoreSpawnFirst(st, e, d, c) ==
    IF HasSchedule(c, e.event.arg)
    THEN Draining(schedule(st.heap, now + d, e.event), Spawn(st.tasks, PurgeTask),
                  Fired(st.disp, e, <<"spawn", "schedule">>), FALSE)
    ELSE Draining(st.heap, st.tasks, Fired(st.disp, e, <<>>), FALSE)

\* ActionClass::Store(idx): with schedule idx in the snapshot, schedule the
\* next one and then spawn the purge; without it, nothing
DispatchStore(st, e, d, c) ==
    IF HasSchedule(c, e.event.arg)
    THEN Draining(schedule(st.heap, now + d, e.event), Spawn(st.tasks, PurgeTask),
                  Fired(st.disp, e, <<"schedule", "spawn">>), FALSE)
    ELSE Draining(st.heap, st.tasks, Fired(st.disp, e, <<>>), FALSE)

\* ActionClass::ReloadLicense: the scheduler awaits core_.reload()
DispatchReloadLicense(st, e) ==
    Draining(st.heap, st.tasks, Fired(st.disp, e, <<"await">>), TRUE)

\* while let Some(event) = queue.pop(): the states in which the loop can
\* stop, at the end of the drain or in the await of ReloadLicense
RECURSIVE Drain(_, _)
Drain(st, c) ==
    UNION {
        IF o.res = {}
        THEN {st}
        ELSE LET e == CHOOSE x \in o.res : TRUE
                 s0 == [st EXCEPT !.heap = o.heap]
             IN  CASE e.event.kind = "Acme" -> Drain(DispatchAcme(s0, e, c), c)
                   [] e.event.kind = "Account" ->
                        UNION {Drain(DispatchAccount(s0, e, d), c) : d \in Delays}
                   [] e.event.kind = "Session" ->
                        UNION {Drain(DispatchSession(s0, e, d), c) : d \in Delays}
                   [] e.event.kind = "Store" ->
                        UNION {Drain(DispatchStore(s0, e, d, c), c) : d \in Delays}
                   [] e.event.kind = "ReloadLicense" ->
                        {DispatchReloadLicense(s0, e)}
        : o \in pop(st.heap, now)}

\* the greatest of h and the dues in the sequence
Highest(h, dues) ==
    LET S == {h} \cup {dues[i] : i \in DOMAIN dues}
    IN  CHOOSE x \in S : \A y \in S : y <= x

\* the scheduler after the loop stopped in r
Drained(r) ==
    /\ queue' = r.heap
    /\ tasks' = r.tasks
    /\ IF r.susp
       THEN /\ pc' = "reload"
            /\ deadline' = deadline
            /\ dispatched' = r.disp
            /\ hiDue' = hiDue
            /\ last' = Step("Await")
       ELSE /\ pc' = "wait"
            /\ deadline' = WakeAt(r.heap)
            /\ dispatched' = NoDisp
            /\ hiDue' = Highest(hiDue, r.disp.dues)
            /\ last' = Last("DrainEnd", NoClass, 0, 0, 0, r.disp)

\* Err(_): the timeout elapsed with nothing to receive (timeout polls
\* rx.recv() first); the snapshot is loaded and the due actions are drained
Timeout ==
    /\ pc = "wait"
    /\ inbox = <<>>
    /\ ~closed
    /\ now >= deadline
    /\ core_' = core
    /\ \E r \in Drain(Draining(queue, tasks, NoDisp, FALSE), core) : Drained(r)
    /\ UNCHANGED <<reader, boot, config_version, now, inbox, closed, index_busy, index_pending, core, todo, envSent,
                   collapsed, owed, qlast>>

\* the dispatched actions once reload() has returned: what the handler of
\* ReloadLicense did, and the core reload() produced, are added to its entry
Returned(disp, ops, res) ==
    [disp EXCEPT !.fired = {IF f.event = ReloadLicense /\ f.ops = <<"await">>
                            THEN [f EXCEPT !.ops = @ \o ops, !.res = res]
                            ELSE f : f \in @}]

\* Inner::increment_config_version
increment_config_version(v) == v + 1

\* a publish that swaps the core and leaves the counter alone
PublishUncounted(new_core, v) == [core |-> new_core, version |-> v]

\* core.core.store(new_core) and then increment_config_version()
Publish(new_core, v) == [core |-> new_core, version |-> increment_config_version(v)]

\* a reschedule that takes the delay for the instant
RelicensedAtDelay(heap, new_core, expires_in) ==
    IF new_core.license THEN schedule(heap, expires_in, ReloadLicense) ELSE heap

\* if let Some(enterprise) = &new_core.enterprise: schedule ReloadLicense
Relicensed(heap, new_core, expires_in) ==
    IF new_core.license THEN schedule(heap, now + expires_in, ReloadLicense) ELSE heap

\* reload() returns Ok with a new core: ReloadLicense is scheduled when the
\* new core has a license, the core is published, and the drain goes on
ReloadNewCore ==
    /\ pc = "reload"
    /\ config_version < MaxVersion
    /\ \E new_core \in Cores :
        \E expires_in \in (IF new_core.license THEN Delays ELSE {0}) :
            LET q == Relicensed(queue, new_core, expires_in)
                d == Returned(dispatched,
                              IF new_core.license
                              THEN <<"schedule", "store", "increment">>
                              ELSE <<"store", "increment">>,
                              <<[core |-> new_core, expires_in |-> expires_in]>>)
                pub == Publish(new_core, config_version)
            IN  /\ core' = pub.core
                /\ config_version' = pub.version
                /\ \E r \in Drain(Draining(q, tasks, d, FALSE), core_) : Drained(r)
    /\ UNCHANGED <<reader, boot, now, inbox, closed, index_busy, index_pending, core_, todo, envSent,
                   collapsed, owed, qlast>>

\* reload() returns Ok without a new core: the drain goes on
ReloadNoCore ==
    /\ pc = "reload"
    /\ \E r \in Drain(Draining(queue, tasks, Returned(dispatched, <<"none">>, <<>>),
                               FALSE), core_) : Drained(r)
    /\ UNCHANGED <<reader, boot, config_version, now, inbox, closed, index_busy, index_pending, core,
                   core_, todo, envSent, collapsed, owed, qlast>>

\* a failed reload that ends the task
ReloadErrReturns ==
    /\ pc = "reload"
    /\ pc' = "exit"
    /\ inbox' = <<>>
    /\ dispatched' = NoDisp
    /\ last' = Last("DrainEnd", NoClass, 0, 0, 0, Returned(dispatched, <<"err">>, <<>>))
    /\ UNCHANGED <<reader, boot, config_version, hiDue, now, queue, deadline, closed, index_busy, index_pending, core, core_,
                   todo, tasks, envSent, collapsed, owed, qlast>>

\* a failed reload that increments the counter all the same
ReloadErrCounted ==
    /\ pc = "reload"
    /\ config_version < MaxVersion
    /\ config_version' = increment_config_version(config_version)
    /\ \E r \in Drain(Draining(queue, tasks, Returned(dispatched, <<"err">>, <<>>),
                               FALSE), core_) : Drained(r)
    /\ UNCHANGED <<reader, boot, now, inbox, closed, index_busy, index_pending, core, core_, todo,
                   envSent, collapsed, owed, qlast>>

\* reload() returns Err: logged, and the drain goes on
ReloadErr ==
    /\ pc = "reload"
    /\ \E r \in Drain(Draining(queue, tasks, Returned(dispatched, <<"err">>, <<>>),
                               FALSE), core_) : Drained(r)
    /\ UNCHANGED <<reader, boot, config_version, now, inbox, closed, index_busy, index_pending, core, core_, todo,
                   envSent, collapsed, owed, qlast>>

\* ------------------------------------------------------- background tasks
\* housekeeper_tx.send(m).await: completes at once when the channel has room
\* or the receiver is gone (the error is ignored), and waits otherwise
CanSend == pc = "exit" \/ closed \/ Len(inbox) < InboxCap
Delivered(m) == IF pc = "exit" \/ closed THEN inbox ELSE Append(inbox, m)

\* a task goes on only when it is the AcmeReload task with providers left
Gone == Task("init", 0, {})
Rest(tk, rest) ==
    IF tk.kind = "init" /\ rest # {}
    THEN [tk EXCEPT !.rest = rest, !.msg = <<>>]
    ELSE Gone
Put(bag, tk) == IF tk = Gone THEN bag ELSE Spawn(bag, tk)

\* the task tk posts m and goes on with the providers in rest
Post(tk, m, rest) ==
    IF CanSend
    THEN /\ inbox' = Delivered(m)
         /\ tasks' = Put(Finish(tasks, tk), Rest(tk, rest))
    ELSE /\ inbox' = inbox
         /\ tasks' = Spawn(Finish(tasks, tk), [tk EXCEPT !.rest = rest, !.msg = <<m>>])

Running(kind) == {tk \in BagToSet(tasks) : tk.kind = kind /\ tk.msg = <<>>}

\* a task waiting in send() gets room in the channel
TaskSend ==
    /\ \E tk \in BagToSet(tasks) :
        /\ tk.msg # <<>>
        /\ CanSend
        /\ inbox' = Delivered(tk.msg[1])
        /\ tasks' = Put(Finish(tasks, tk), Rest(tk, tk.rest))
    /\ last' = NoLast
    /\ UNCHANGED <<reader, boot, config_version, hiDue, schedVars, now, closed, envSent, qlast>>

\* fts_index_queued() ends and posts IndexDone
IndexerDone ==
    /\ \E tk \in Running("index") : Post(tk, IndexDoneEv, {})
    /\ last' = NoLast
    /\ UNCHANGED <<reader, boot, config_version, hiDue, schedVars, now, closed, envSent, qlast>>

\* the end of the renewal task: the counter is incremented and
\* AcmeReschedule is posted with renew_at counted from now
Renewed(tk, delay) ==
    /\ config_version < MaxVersion
    /\ config_version' = increment_config_version(config_version)
    /\ Post(tk, AcmeRescheduleEv(tk.id, now + delay), {})

\* the renewal task: core.renew(provider) returns Ok(renew_at)
RenewOk ==
    /\ \E tk \in Running("renew"), renew_at \in Durations :
        /\ Renewed(tk, renew_at)
        /\ last' = Last("RenewOk", Acme(tk.id), 0, 0, renew_at, NoDisp)
    /\ UNCHANGED <<reader, boot, hiDue, schedVars, now, closed, envSent, qlast>>

\* a failed renewal that posts nothing
RenewErrSilent ==
    /\ \E tk \in Running("renew") :
        /\ config_version < MaxVersion
        /\ config_version' = increment_config_version(config_version)
        /\ tasks' = Finish(tasks, tk)
        /\ last' = Last("RenewErr", Acme(tk.id), 0, 0, 0, NoDisp)
    /\ UNCHANGED <<reader, boot, hiDue, schedVars, now, inbox, closed, envSent, qlast>>

\* the renewal task: core.renew(provider) returns Err
RenewErr ==
    /\ \E tk \in Running("renew") :
        /\ Renewed(tk, RenewRetry)
        /\ last' = Last("RenewErr", Acme(tk.id), 0, 0, 0, NoDisp)
    /\ UNCHANGED <<reader, boot, hiDue, schedVars, now, closed, envSent, qlast>>

\* the AcmeReload task: init_acme(provider) returns Ok(renew_at)
ReloadInitOk ==
    /\ \E tk \in Running("init"), p \in Providers, renew_at \in Durations :
        /\ p \in tk.rest
        /\ Post(tk, AcmeRescheduleEv(p, now + renew_at), tk.rest \ {p})
    /\ last' = NoLast
    /\ UNCHANGED <<reader, boot, config_version, hiDue, schedVars, now, closed, envSent, qlast>>

\* the AcmeReload task: init_acme(provider) returns Err: logged
ReloadInitErr ==
    /\ \E tk \in Running("init"), p \in Providers :
        /\ p \in tk.rest
        /\ tasks' = Put(Finish(tasks, tk), Rest(tk, tk.rest \ {p}))
        /\ last' = Last("ReloadInitErr", Acme(p), 0, 0, 0, NoDisp)
    /\ UNCHANGED <<reader, boot, config_version, hiDue, schedVars, now, inbox, closed, envSent, qlast>>

\* a purge task ends
PurgeOk ==
    /\ \E tk \in BagToSet(tasks) :
        /\ tk.kind \in {"cache", "purge"}
        /\ tasks' = Finish(tasks, tk)
    /\ last' = NoLast
    /\ UNCHANGED <<reader, boot, config_version, hiDue, schedVars, now, inbox, closed, envSent, qlast>>

\* a store purge fails: logged
PurgeErr ==
    /\ \E tk \in BagToSet(tasks) :
        /\ tk.kind = "purge"
        /\ tasks' = Finish(tasks, tk)
    /\ last' = Step("PurgeErr")
    /\ UNCHANGED <<reader, boot, config_version, hiDue, schedVars, now, inbox, closed, envSent, qlast>>

\* ------------------------------------------------------------ environment
\* a subsystem posts one of the events; it waits while the channel is full
Posts(events, budget) ==
    /\ pc # "exit"
    /\ ~closed
    /\ envSent < budget
    /\ Len(inbox) < InboxCap
    /\ \E e \in events : inbox' = Append(inbox, e)
    /\ envSent' = envSent + 1
    /\ last' = NoLast
    /\ UNCHANGED <<reader, boot, config_version, hiDue, schedVars, now, closed, tasks, qlast>>

EnvSend == Posts(EnvEvents, MaxEnv)

\* the last Sender is dropped
EnvClose ==
    /\ pc # "exit"
    /\ ~closed
    /\ tasks = EmptyBag
    /\ closed' = TRUE
    /\ last' = NoLast
    /\ UNCHANGED <<reader, boot, config_version, hiDue, schedVars, now, inbox, tasks, envSent, qlast>>

\* time passes
Tick ==
    /\ now < MaxTime
    /\ now' = now + 1
    /\ last' = NoLast
    /\ UNCHANGED <<reader, boot, config_version, hiDue, schedVars, inbox, closed, tasks, envSent, qlast>>

Scheduler ==
    \/ Start \/ InitAcmeOk \/ InitAcmeErr \/ EnterLoop
    \/ OnAcmeReload \/ OnAcmeReschedule \/ OnIndexStart \/ OnIndexDone
    \/ OnPurge \/ OnExit \/ OnClosed
    \/ Timeout \/ ReloadNewCore \/ ReloadNoCore \/ ReloadErr

Background ==
    \/ TaskSend \/ IndexerDone \/ RenewOk \/ RenewErr \/ ReloadInitOk
    \/ ReloadInitErr \/ PurgeOk \/ PurgeErr

Next == Scheduler \/ Background \/ EnvSend \/ EnvClose \/ Tick

Spec == Init /\ [][Next]_vars

\* ------------------------------------------------- indexing on its own
\* The housekeeper of a server with no purge schedule, no ACME provider and
\* no license, with the indexing subsystem posting IndexStart (and Exit).
IndexRequest == Posts({IndexStartEv, ExitEv}, MaxStarts)

IndexInit == Init /\ core = Core(0, {}, FALSE)

Receive == OnIndexStart \/ OnIndexDone \/ OnExit

IndexNext ==
    \/ Start \/ EnterLoop \/ OnIndexStart \/ OnIndexDone \/ OnExit \/ Timeout
    \/ TaskSend \/ IndexerDone \/ PurgeOk \/ IndexRequest \/ Tick

IndexSpec == IndexInit /\ [][IndexNext]_vars

\* The scheduler task runs; a ready event is received (timeout polls recv
\* first); an indexer ends; a waiting send gets the room that is freed (the
\* channel serves its waiters first).
IndexLive ==
    /\ IndexSpec
    /\ WF_vars(Start \/ EnterLoop)
    /\ WF_vars(Receive)
    /\ WF_vars(IndexerDone)
    /\ SF_vars(TaskSend)

\* --------------------------------------------- certificates on their own
\* The housekeeper of a server with an ACME provider, no purge schedule and
\* no license, with the ACME subsystem posting AcmeReload (and Exit).
AcmeRequest == Posts({AcmeReloadEv, ExitEv}, MaxEnv)

AcmeInit == InitWith(Core(0, Providers, FALSE)) /\ boot = Booted

StartUp == Start \/ InitAcmeOk \/ InitAcmeErr \/ EnterLoop
AcmeReceive == OnAcmeReload \/ OnAcmeReschedule \/ OnIndexDone \/ OnExit

AcmeNext ==
    \/ StartUp \/ AcmeReceive \/ Timeout
    \/ TaskSend \/ IndexerDone \/ RenewOk \/ RenewErr \/ ReloadInitOk
    \/ ReloadInitErr \/ PurgeOk \/ AcmeRequest \/ Tick

AcmeSpec == AcmeInit /\ [][AcmeNext]_vars

\* The scheduler task runs and the init_acme calls it awaits return; a
\* ready event is received; a renewal ends; a waiting send gets the room
\* that is freed.
AcmeLive ==
    /\ AcmeSpec
    /\ WF_vars(StartUp)
    /\ WF_vars(AcmeReceive)
    /\ WF_vars(RenewOk \/ RenewErr)
    /\ SF_vars(TaskSend)

\* ------------------------------------------- events that keep arriving
\* other subsystems post AcmeReload whenever the channel has room, and
\* IndexStart a number of times
FloodIndex == Posts({IndexStartEv}, MaxStarts)

Flood ==
    /\ pc # "exit"
    /\ ~closed
    /\ Len(inbox) < InboxCap
    /\ inbox' = Append(inbox, AcmeReloadEv)
    /\ last' = NoLast
    /\ UNCHANGED <<reader, boot, config_version, hiDue, schedVars, now, closed, tasks, envSent, qlast>>

FloodNext ==
    \/ Start \/ EnterLoop \/ OnAcmeReload \/ OnIndexStart \/ OnIndexDone \/ Timeout
    \/ TaskSend \/ IndexerDone \/ PurgeOk \/ Flood \/ FloodIndex \/ Tick

\* The scheduler task runs whenever it can take a step: it receives when an
\* event is ready and drains when the timeout elapsed with nothing to
\* receive.  The tasks run and time passes.
FloodLive ==
    /\ IndexInit
    /\ [][FloodNext]_vars
    /\ WF_vars(Start \/ EnterLoop \/ OnAcmeReload \/ OnIndexStart \/ OnIndexDone
                    \/ Timeout)
    /\ WF_vars(IndexerDone \/ PurgeOk)
    /\ SF_vars(TaskSend)
    /\ WF_vars(Tick)

\* ------------------------------------- a reader next to the publish
\* The two calls of the publish, lines 366 and 369, as the steps another
\* thread can run between, and a reader that loads the snapshot and the
\* counter one after the other, in either order.
pubVars ==
    <<boot, pc, now, queue, deadline, inbox, closed, index_busy, index_pending,
      core_, todo, tasks, envSent, last, collapsed, owed, dispatched, qlast, hiDue>>

\* a publish that increments the counter before it stores the snapshot
PublishIncrementFirst == <<"increment", "store">>

\* the two calls of the publish in their order
PublishOrder == <<"store", "increment">>

\* one call of the publish
Publishing(call, new_core, storing) ==
    /\ core' = IF call = "store" THEN new_core ELSE core
    /\ config_version' = IF call = "increment"
                         THEN increment_config_version(config_version)
                         ELSE config_version
    /\ reader' = [reader EXCEPT !.stored = IF call = "store" THEN @ + 1 ELSE @,
                                !.storing = storing]

PublishFirst ==
    /\ ~reader.storing
    /\ config_version < MaxVersion
    /\ \E new_core \in Cores : Publishing(PublishOrder[1], new_core, TRUE)
    /\ UNCHANGED pubVars

PublishSecond ==
    /\ reader.storing
    /\ \E new_core \in Cores : Publishing(PublishOrder[2], new_core, FALSE)
    /\ UNCHANGED pubVars

\* the reader loads the first of the two
ReaderFirst ==
    /\ reader.at = "idle"
    /\ \E first \in {"version", "core"} :
        reader' = [reader EXCEPT !.at = "half", !.first = first,
                                 !.version = IF first = "version" THEN config_version
                                             ELSE @,
                                 !.epoch = IF first = "core" THEN reader.stored ELSE @]
    /\ UNCHANGED <<core, config_version>>
    /\ UNCHANGED pubVars

\* the reader loads the other one
ReaderSecond ==
    /\ reader.at = "half"
    /\ reader' = [reader EXCEPT !.at = "done",
                                !.version = IF reader.first = "core" THEN config_version
                                            ELSE @,
                                !.epoch = IF reader.first = "version" THEN reader.stored
                                          ELSE @]
    /\ UNCHANGED <<core, config_version>>
    /\ UNCHANGED pubVars

ReaderNext == PublishFirst \/ PublishSecond \/ ReaderFirst \/ ReaderSecond

ReaderSpec == Init /\ [][ReaderNext]_vars

\* ------------------------------------------------- the Queue on its own
QClasses == {Session, Account, Store(0)}
QDelays == (0..MaxDelay) \cup {LONG_SLUMBER}

Call(op, heap, t, res, wake) ==
    [op |-> op, heap |-> heap, t |-> t, res |-> res, wake |-> wake]

QInit == Init /\ core = Core(0, {}, FALSE)

QSchedule ==
    /\ BagCardinality(queue) < MaxHeap
    /\ \E d \in QDelays, c \in QClasses : queue' = schedule(queue, now + d, c)
    /\ qlast' = Call("schedule", queue, now, {}, 0)
    /\ UNCHANGED <<reader, boot, config_version, hiDue, pc, now, deadline, inbox, closed, index_busy, index_pending, core,
                   core_, todo, tasks, envSent, last, collapsed, owed, dispatched>>

QRemove ==
    /\ \E c \in QClasses : queue' = remove_action(queue, c)
    /\ qlast' = Call("remove_action", queue, now, {}, 0)
    /\ UNCHANGED <<reader, boot, config_version, hiDue, pc, now, deadline, inbox, closed, index_busy, index_pending, core,
                   core_, todo, tasks, envSent, last, collapsed, owed, dispatched>>

QWake ==
    /\ qlast' = Call("wake_up_time", queue, now, {}, wake_up_time(queue, now))
    /\ UNCHANGED <<reader, boot, config_version, hiDue, pc, now, queue, deadline, inbox, closed, index_busy, index_pending,
                   core, core_, todo, tasks, envSent, last, collapsed, owed, dispatched>>

QPop ==
    /\ \E o \in pop(queue, now) :
        /\ queue' = o.heap
        /\ qlast' = Call("pop", queue, now, o.res, 0)
    /\ UNCHANGED <<reader, boot, config_version, hiDue, pc, now, deadline, inbox, closed, index_busy, index_pending, core,
                   core_, todo, tasks, envSent, last, collapsed, owed, dispatched>>

QNext == QSchedule \/ QRemove \/ QWake \/ QPop \/ Tick

QueueSpec == QInit /\ [][QNext]_vars

\* ========================================= BootManager::init: the steps
hkVars ==
    <<reader, pc, now, queue, deadline, inbox, closed, index_busy, index_pending, core,
      core_, todo, tasks, envSent, last, collapsed, owed, dispatched, qlast,
      config_version, hiDue>>

BootInit ==
    /\ InitWith(Core(0, {}, FALSE))
    /\ \E file \in Files(LocalFiles), store \in StoredSettings :
        boot = BootWith(file, store)

\* the step that follows a step
Then(stage) == Stages[(CHOOSE i \in DOMAIN Stages : Stages[i] = stage) + 1]

Go(b) == [b EXCEPT !.pc = Then(b.pc), !.at = Then(b.pc)]

\* utils::failed and UnwrapFailure::failed: the process ends where it is
failed(b) == [b EXCEPT !.pc = "failed"]

Logged(b, ops) == [b EXCEPT !.log = @ \o ops]

\* lines 58-98
BootResolvePath ==
    /\ boot.pc = "path"
    /\ \E optional_config_path \in {None, Some("/etc/config.toml")},
          env \in {None, Some("/etc/env.toml")}, args \in ArgLists :
        LET r == ResolvePath(optional_config_path, env, args)
            b == [boot EXCEPT !.resolved =
                    <<[optional_config_path |-> optional_config_path, env |-> env,
                       args |-> args, res |-> r]>>]
        IN  boot' = IF r.out = "path" THEN Go(b)
                    ELSE IF r.out = "quickstart" THEN [b EXCEPT !.pc = "exit0"]
                    ELSE failed(b)
    /\ UNCHANGED hkVars

\* lines 99-108: read_to_string and config.parse
BootReadConfig ==
    /\ boot.pc = "read"
    /\ LET b == [boot EXCEPT !.resolved = <<>>]
       IN  boot' = IF b.file.is = "unreadable"
                   THEN Go([b EXCEPT !.config =
                            new_build_error(@, "Could not read configuration file")])
                   ELSE IF b.file.is = "ok"
                        THEN Go([b EXCEPT !.config.keys = b.file.keys])
                        ELSE failed(b)
    /\ UNCHANGED hkVars

\* lines 110-114: resolve_macros and Servers::parse
BootParseServers ==
    /\ boot.pc = "servers"
    /\ boot' = Go(boot)
    /\ UNCHANGED hkVars

\* Servers::bind_and_drop_priv: the listeners are bound, then the
\* privileges are dropped
bind_and_drop_priv(b) ==
    [Logged(b, <<"bind", "drop_priv">>) EXCEPT !.bound = TRUE, !.privileged = FALSE]

\* line 117
BootBindAndDropPriv ==
    /\ boot.pc = "bind"
    /\ boot' = Go(bind_and_drop_priv(boot))
    /\ UNCHANGED hkVars

\* a listener cannot be bound or the privileges cannot be dropped
BootBindFails ==
    /\ boot.pc = "bind"
    /\ boot' = failed(boot)
    /\ UNCHANGED hkVars

\* lines 119-132: Stores::parse and the ConfigManager; an id that names no
\* store gives none
BootLoadStores ==
    /\ boot.pc = "stores"
    /\ \E data \in (IF Present(boot.config.keys, DataKey) THEN BOOLEAN ELSE {FALSE}),
          blob \in (IF Present(boot.config.keys, BlobKey) THEN BOOLEAN ELSE {FALSE}) :
        boot' = Go([Logged(boot, <<"Stores::parse">>) EXCEPT
                        !.data = data, !.blob = blob, !.cfg_store = data])
    /\ UNCHANGED hkVars

\* ConfigManager::extend_config: the stored settings are merged into the
\* configuration
extend_config(keys, stored) ==
    [k \in DOMAIN keys \cup DOMAIN stored |->
        IF k \in DOMAIN stored THEN stored[k] ELSE keys[k]]

\* lines 134-140
BootExtendConfig ==
    /\ boot.pc = "extend"
    /\ IF boot.cfg_store
       THEN \/ boot' = Go([Logged(boot, <<"extend_config">>) EXCEPT
                                !.config.keys = extend_config(@, boot.store)])
            \/ boot' = failed(Logged(boot, <<"extend_config">>))
       ELSE boot' = Go(boot)
    /\ UNCHANGED hkVars

\* lines 142-178: tracing, the hostname and the OAuth key
BootSeed ==
    /\ boot.pc = "seed"
    /\ \E host \in (IF Missing(boot.config.keys, HostnameKey)
                    THEN {<<ConfigKey(HostnameKey, "host.example.org")>>,
                          <<ConfigKey(HostnameKey, "localhost")>>}
                    ELSE {<<>>}) :
        LET oauth == IF Missing(boot.config.keys, OAuthKey)
                     THEN <<ConfigKey(OAuthKey, IF boot.run = 1 THEN "random-a"
                                                ELSE "random-b")>>
                     ELSE <<>>
        IN  boot' = Go([boot EXCEPT !.before = boot.config.keys,
                                    !.insert_keys = host \o oauth])
    /\ UNCHANGED hkVars

\* lines 180-221: the rule pack and the default settings
BootSpamFilter ==
    /\ boot.pc = "spam"
    /\ IF Missing(boot.config.keys, SpamVersionKey)
       THEN \/ \E pack \in RulePacks :
                boot' = Go([boot EXCEPT
                                !.fetch = "ok",
                                !.insert_keys = @ \o pack \o DefaultSettings])
            \/ boot' = Go([boot EXCEPT
                                !.fetch = "err",
                                !.config =
                                    new_build_error(@, "Failed to fetch spam filter"),
                                !.insert_keys = @ \o DefaultSettings])
       ELSE boot' = Go([boot EXCEPT !.fetch = "skipped"])
    /\ UNCHANGED hkVars

\* lines 223-255: the webadmin bundle
BootWebadmin ==
    /\ boot.pc = "webadmin"
    /\ IF Present(boot.config.keys, BlobKey) /\ boot.blob
       THEN \/ boot' = Go(Logged(boot, <<"get_blob">>))
            \/ boot' = Go(Logged(boot, <<"get_blob", "put_blob">>))
            \/ \E e \in {[ops |-> <<"get_blob", "put_blob">>,
                          msg |-> "Failed to store webadmin blob"],
                         [ops |-> <<"get_blob">>,
                          msg |-> "Failed to download webadmin"],
                         [ops |-> <<"get_blob">>,
                          msg |-> "Failed to access webadmin blob"]} :
                boot' = Go([Logged(boot, e.ops) EXCEPT
                                !.config = new_build_error(@, e.msg)])
       ELSE boot' = Go(boot)
    /\ UNCHANGED hkVars

\* a set that reports Ok and writes nothing
set_nothing(b) == b

\* ConfigManager::set that returns Ok: the keys are in the backing store, when
\* there is one
set(b) == [b EXCEPT !.store = IF b.cfg_store THEN InsertAll(@, b.set_keys) ELSE @]

\* lines 257-266: the settings are inserted and handed to ConfigManager::set
BootAddMissing ==
    /\ boot.pc = "persist"
    /\ IF boot.insert_keys # <<>>
       THEN LET b == [Logged(boot, <<"set">>) EXCEPT
                        !.config.keys = InsertAll(@, boot.insert_keys),
                        !.set_keys = boot.insert_keys]
            IN  \/ boot' = Go(set(b))
                \/ boot' = Go([b EXCEPT !.config =
                                new_build_error(@, "Failed to update configuration")])
       ELSE boot' = Go(boot)
    /\ UNCHANGED hkVars

\* lines 268-269
BootParseLookups ==
    /\ boot.pc = "lookups"
    /\ boot' = Go(Logged(boot, <<"parse_lookups">>))
    /\ UNCHANGED hkVars

\* lines 271-274
BootBuildCore ==
    /\ boot.pc = "core"
    /\ boot' = Go(boot)
    /\ UNCHANGED hkVars

\* the core cannot be built
BootBuildCoreFails ==
    /\ boot.pc = "core"
    /\ boot' = failed(boot)
    /\ UNCHANGED hkVars

\* lines 276-284
BootAcceptors ==
    /\ boot.pc = "acceptors"
    /\ boot' = Go(boot)
    /\ UNCHANGED hkVars

BootNext ==
    \/ BootResolvePath \/ BootReadConfig \/ BootParseServers
    \/ BootBindAndDropPriv \/ BootBindFails \/ BootLoadStores \/ BootExtendConfig
    \/ BootSeed \/ BootSpamFilter \/ BootWebadmin \/ BootAddMissing
    \/ BootParseLookups \/ BootBuildCore \/ BootBuildCoreFails \/ BootAcceptors

BootSpec == BootInit /\ [][BootNext]_vars

\* ------------------------------------------------------- booting twice
\* the process is started again on the file and the backing store the first
\* run left
BootAgain ==
    /\ boot.pc = "returned"
    /\ boot.run = 1
    /\ boot' = [BootWith(boot.file, boot.store) EXCEPT !.run = 2, !.prev = <<boot>>]
    /\ UNCHANGED hkVars

\* the files of the runs that boot twice: without settings, with a data
\* store, and with a data store and an empty hostname
TwiceInit ==
    /\ InitWith(Core(0, {}, FALSE))
    /\ \E file \in Files({NoKeys, [k \in {DataKey} |-> "db"],
                          [k \in {DataKey, HostnameKey} |->
                              IF k = DataKey THEN "db" ELSE ""]}),
          store \in StoredSettings :
        boot = BootWith(file, store)

TwiceNext == BootNext \/ BootAgain

TwiceSpec == TwiceInit /\ [][TwiceNext]_vars

\* ============================================================= properties
\* notions the properties below use
Has(ops, x) == \E i \in DOMAIN ops : ops[i] = x
InInbox(type) == Cardinality({i \in DOMAIN inbox : inbox[i].type = type})
TasksOf(kind) ==
    BagCardinality([tk \in {x \in BagToSet(tasks) : x.kind = kind} |-> tasks[tk]])

\* C1: in every reachable state the queue holds at most one Action of each
\* ActionClass value.
C1_OnePerClass == \A c \in ActionClass : CountOf(queue, c) <= 1

\* an AcmeReschedule has replaced the Acme action that was queued, next to
\* the Session and Account actions of the initial schedule
C1_Witness ==
    /\ last.op = "AcmeReschedule"
    /\ last.k = 1
    /\ CountOf(queue, last.cls) = 1
    /\ CountOf(queue, Session) = 1
    /\ CountOf(queue, Account) = 1

\* C2: at most one indexer is in flight at any time, the one spawned at
\* start-up included: an indexer that runs, or has ended and waits to post
\* its IndexDone, or whose IndexDone is in the inbox not yet processed; so an
\* IndexStart processed in any of these states spawns no second indexer.
C2_SingleFlight ==
    /\ TasksOf("index") + InInbox("IndexDone") <= 1
    /\ (last.op = "IndexStart" /\ last.n = 1) =>
            (TasksOf("index") = 1 /\ InInbox("IndexDone") = 0)

\* an IndexStart was processed and spawned nothing while the IndexDone of
\* the indexer was still to be posted
C2_Witness ==
    /\ last.op = "IndexStart"
    /\ last.n = 0
    /\ \E tk \in BagToSet(tasks) : tk.kind = "index" /\ tk.msg # <<>>

\* C3: no indexing request is lost: an IndexStart that is processed either
\* spawns an indexer at once or is owed one, and an indexer that is owed is
\* eventually spawned (on the next IndexDone), unless the scheduler exits.
C3_NoLostRequest ==
    /\ [](last.op = "IndexStart" => (last.n = 1 \/ owed))
    /\ owed ~> (~owed \/ pc = "exit")

\* an IndexDone spawned the indexer that a request processed while busy was
\* owed
C3_Witness ==
    /\ last.op = "IndexDone"
    /\ last.n = 1
    /\ last.k >= 1
    /\ ~owed

\* C4: an IndexDone processed after k >= 1 IndexStart events were processed
\* while the indexer ran spawns exactly one indexer and leaves index_busy
\* set; an IndexDone processed with no such IndexStart spawns none and
\* clears index_busy.
C4_Collapse ==
    last.op = "IndexDone" =>
        /\ last.k >= 1 => (last.n = 1 /\ index_busy /\ ~index_pending /\ TasksOf("index") = 1)
        /\ last.k = 0 => (last.n = 0 /\ ~index_busy /\ ~index_pending /\ TasksOf("index") = 0)

\* two IndexStart events were processed while one indexer ran, and its
\* IndexDone spawned one indexer
C4_Witness ==
    /\ last.op = "IndexDone"
    /\ last.k >= 2
    /\ last.n = 1
    /\ TasksOf("index") = 1

\* C5: after AcmeReschedule{id, t} is processed the queue holds exactly one
\* Acme(id) action and its due is t, whatever the queue held for the class.
C5_Reschedule ==
    last.op = "AcmeReschedule" =>
        /\ CountOf(queue, last.cls) = 1
        /\ DuesOf(queue, last.cls) = {last.t}

\* the Acme action that was queued had a later due than the new one
C5_Witness ==
    /\ last.op = "AcmeReschedule"
    /\ \E d \in last.was : d > last.t
    /\ DuesOf(queue, last.cls) = {last.t}

\* the actions of a class that the drain just ended dispatched
FiredOf(kind) == {f \in last.disp.fired : f.event.kind = kind}
\* the class is in the queue once, due later than the action that fired
Requeued(f) ==
    /\ CountOf(queue, f.event) = 1
    /\ \A d \in DuesOf(queue, f.event) : d > f.due

\* C6 as stated: when a drain ends, every class it dispatched is in the
\* queue again.
C6_AllRescheduled ==
    last.op = "DrainEnd" => \A f \in last.disp.fired : CountOf(queue, f.event) >= 1

\* the dispatch scheduled the next occurrence itself, awaiting nothing
Immediate(f) == Has(f.ops, "schedule") /\ ~Has(f.ops, "await")

\* C6 amended: when a drain ends, every Session and Account it dispatched,
\* and every Store(i) whose purge schedule is in the snapshot, was scheduled
\* again by its dispatch, without awaiting the purge spawned for it, and is
\* in the queue once with a later due; a Store(i) without schedule and an
\* Acme(id) are not in the queue; ReloadLicense is in the queue exactly when
\* the awaited reload() returned a new core with a license.
C6_Rescheduled ==
    last.op = "DrainEnd" =>
        /\ \A f \in FiredOf("Session") \cup FiredOf("Account") :
                Requeued(f) /\ Immediate(f)
        /\ \A f \in FiredOf("Store") :
                IF HasSchedule(core_, f.event.arg)
                THEN Requeued(f) /\ Immediate(f)
                ELSE CountOf(queue, f.event) = 0 /\ f.ops = <<>>
        /\ \A f \in FiredOf("Acme") : CountOf(queue, f.event) = 0
        /\ \A f \in FiredOf("ReloadLicense") :
                /\ Has(f.ops, "await")
                /\ CountOf(queue, f.event) = (IF Has(f.ops, "schedule") THEN 1 ELSE 0)
                /\ Has(f.ops, "schedule") => Requeued(f)

\* a drain dispatched Session and an Acme action: Session is queued again,
\* the Acme class is not
C6_Witness ==
    /\ last.op = "DrainEnd"
    /\ FiredOf("Session") # {}
    /\ FiredOf("Acme") # {}
    /\ CountOf(queue, Session) = 1

\* C7 as stated: the scheduler task is suspended only in the combined
\* (timeout, recv) wait of its loop.
C7_SuspendsOnlyInWait == pc \in {"boot", "wait", "exit"}

\* a step that reports a failure of a purge, of an ACME initialisation or
\* renewal, or of a license reload
Failure(l) ==
    \/ l.op \in {"InitAcmeErr", "RenewErr", "ReloadInitErr", "PurgeErr"}
    \/ l.op = "DrainEnd" /\ \E f \in l.disp.fired : Has(f.ops, "err")

\* C8: the scheduler ends exactly in the steps that process an Exit event
\* or observe the channel closed, and a step in which a purge, an ACME
\* initialisation or renewal, or a license reload fails does not end it.
C8_ExitOnly ==
    [][/\ (pc # "exit" /\ pc' = "exit") <=> (pc # "exit" /\ last'.op \in {"Exit", "Closed"})
       /\ (Failure(last') /\ pc # "exit") => pc' # "exit"]_vars

\* a license reload failed and the scheduler is back in its wait
C8_Witness ==
    /\ last.op = "DrainEnd"
    /\ \E f \in last.disp.fired : f.event = ReloadLicense /\ Has(f.ops, "err")
    /\ pc = "wait"

\* the dues of the heap a Queue call was made on
DuesIn(heap) == {e.due : e \in BagToSet(heap)}
IsMin(d, S) == d \in S /\ \A x \in S : d <= x

\* C9: Queue::pop at time t returns and removes an Action whose due is the
\* minimum due of the heap exactly when that minimum is at most t; otherwise
\* it returns None and leaves the heap unchanged.
C9_Pop ==
    qlast.op = "pop" =>
        LET due == (\E d \in DuesIn(qlast.heap) : IsMin(d, DuesIn(qlast.heap)) /\ d <= qlast.t)
        IN  /\ (qlast.res # {}) <=> due
            /\ \A e \in qlast.res :
                /\ BagIn(e, qlast.heap)
                /\ IsMin(e.due, DuesIn(qlast.heap))
                /\ queue = qlast.heap (-) SetToBag({e})
            /\ qlast.res = {} => queue = qlast.heap

\* a pop returned and removed the earliest action of a heap with different dues
C9_Witness ==
    /\ qlast.op = "pop"
    /\ qlast.res # {}
    /\ Cardinality(DuesIn(qlast.heap)) >= 2
    /\ BagCardinality(queue) = BagCardinality(qlast.heap) - 1

\* C10 as stated: wake_up_time returns LONG_SLUMBER if and only if the heap
\* is empty.
C10_SlumberIffEmpty ==
    qlast.op = "wake_up_time" =>
        ((qlast.wake = LONG_SLUMBER) <=> (qlast.heap = EmptyBag))

\* C10 amended: wake_up_time returns LONG_SLUMBER for an empty heap; for a
\* heap that is not empty it returns the least due minus now, or zero when
\* that due is past, which is LONG_SLUMBER when the head is due exactly
\* LONG_SLUMBER from now.
C10_WakeUpTime ==
    qlast.op = "wake_up_time" =>
        /\ qlast.heap = EmptyBag => qlast.wake = LONG_SLUMBER
        /\ qlast.heap # EmptyBag =>
            \E d \in DuesIn(qlast.heap) :
                /\ IsMin(d, DuesIn(qlast.heap))
                /\ qlast.wake = (IF d > qlast.t THEN d - qlast.t ELSE 0)
        /\ queue = qlast.heap

\* the head of the heap is overdue and the wait is zero
C10_Witness ==
    /\ qlast.op = "wake_up_time"
    /\ \E d \in DuesIn(qlast.heap) : d < qlast.t
    /\ qlast.wake = 0

\* the sequence never steps down
NonDecreasing(dues) == \A i, j \in DOMAIN dues : i < j => dues[i] <= dues[j]

\* C11 as stated: over a whole run the timer actions are dispatched in
\* non-decreasing order of due: no drain dispatches an action with a due
\* below one that it or an earlier drain dispatched.
C11_FireInDueOrder ==
    [][last'.op = "DrainEnd" => NonDecreasing(<<hiDue>> \o last'.disp.dues)]_vars

\* C11 amended: within one drain the actions are dispatched in
\* non-decreasing order of due, the ones rescheduled inside the drain and the
\* ones dispatched after an awaited reload included.
C11_DrainInDueOrder == last.op = "DrainEnd" => NonDecreasing(last.disp.dues)

\* a drain dispatched an overdue Acme action and then a Session action
\* with a later due
C11_Witness ==
    /\ last.op = "DrainEnd"
    /\ \E f \in FiredOf("Acme"), g \in FiredOf("Session") : f.due < g.due
    /\ \E i, j \in DOMAIN last.disp.dues : i < j /\ last.disp.dues[i] < last.disp.dues[j]

\* tasks that wait in send() with the event m
Waiting(m) ==
    BagCardinality([tk \in {x \in BagToSet(tasks) : x.msg = <<m>>} |-> tasks[tk]])
RenewalsOf(id) == {tk \in Running("renew") : tk.id = id}

\* C12: a renewal task that ends posts exactly one AcmeReschedule for its
\* provider, with renew_at the time of its end plus the delay renew returned,
\* or plus one hour when renew failed (nothing when the scheduler is gone);
\* and a renewal that runs is followed by Acme(id) in the queue, unless the
\* scheduler exits or config_version reaches MaxVersion.
C12_RenewalReschedules ==
    /\ [][\A id \in Providers, t \in 0..(MaxTime + MaxDelay) :
            (/\ last'.op \in {"RenewOk", "RenewErr"}
             /\ last'.cls = Acme(id)
             /\ t = now + (IF last'.op = "RenewErr" THEN 1 ELSE last'.k)) =>
                LET m == AcmeRescheduleEv(id, t)
                IN  /\ CopiesIn(RenewTask(id), tasks') = CopiesIn(RenewTask(id), tasks) - 1
                    /\ \/ pc = "exit" /\ inbox' = inbox /\ Waiting(m)' = Waiting(m)
                       \/ pc # "exit" /\ inbox' = Append(inbox, m) /\ Waiting(m)' = Waiting(m)
                       \/ pc # "exit" /\ inbox' = inbox /\ Waiting(m)' = Waiting(m) + 1]_vars
    /\ \A id \in Providers :
        (RenewalsOf(id) # {}) ~>
            (CountOf(queue, Acme(id)) = 1 \/ pc = "exit" \/ config_version = MaxVersion)

\* the AcmeReschedule that a renewal posted has put Acme(id) back in the
\* queue, due one hour after the renewal ended
C12_Witness ==
    /\ last.op = "AcmeReschedule"
    /\ last.k = 0
    /\ last.t = now + 1
    /\ CountOf(queue, last.cls) = 1
    /\ hiDue = 0
    /\ config_version > 0

\* an AcmeReschedule for the provider is in the inbox or waits to be sent
Rescheduling(id) ==
    \/ \E i \in DOMAIN inbox : inbox[i].type = "AcmeReschedule" /\ inbox[i].id = id
    \/ \E tk \in BagToSet(tasks) :
        tk.msg # <<>> /\ tk.msg[1].type = "AcmeReschedule" /\ tk.msg[1].id = id

\* C13 as stated: a failed init_acme is retried: after the failure, in the
\* initial schedule or in the AcmeReload task, Acme(id) is in the queue or an
\* AcmeReschedule for it is on its way.
C13_InitRetried ==
    last.op \in {"InitAcmeErr", "ReloadInitErr"} =>
        (CountOf(queue, last.cls) = 1 \/ Rescheduling(last.cls.arg))

\* the drain that just ended awaited a reload() that produced the core c,
\* whose license, if it has one, expires in d
Reloaded(l, c, d) ==
    /\ l.op = "DrainEnd"
    /\ \E f \in l.disp.fired :
        f.event = ReloadLicense /\ f.res = <<[core |-> c, expires_in |-> d]>>

ReloadFailed(l) ==
    /\ l.op = "DrainEnd"
    /\ \E f \in l.disp.fired : f.event = ReloadLicense /\ Has(f.ops, "err")

Published(l) ==
    /\ l.op = "DrainEnd"
    /\ \E f \in l.disp.fired : f.event = ReloadLicense /\ Has(f.ops, "store")

\* C16: config_version never decreases, and the step that publishes a new
\* snapshot leaves it strictly greater, whatever the renewal tasks have
\* added to it before and while reload() was awaited.
C16_VersionGrows ==
    [][/\ config_version' >= config_version
       /\ (pc = "reload" /\ Published(last')) => config_version' > config_version]_vars

\* a snapshot has just been published and the counter stands at two: a
\* renewal task or an earlier publish has incremented it as well
C16_Witness ==
    /\ Published(last)
    /\ config_version = MaxVersion
    /\ \E id \in Providers : CountOf(queue, Acme(id)) = 1

\* the keys of the default settings
DefaultKeys == {DefaultSettings[i].key : i \in DOMAIN DefaultSettings}

\* operations on a store
StoreOps ==
    {"Stores::parse", "extend_config", "get_blob", "put_blob", "set", "parse_lookups"}

Before(log, a, i) == \E j \in 1..(i - 1) : log[j] = a

\* C17: in every boot run the privileges are dropped after the ports are
\* bound and before any store is opened or accessed: Stores::parse,
\* extend_config, the blob get and put, ConfigManager::set and parse_lookups
\* occur only after the drop, and none while the process is privileged.
C17_DropBeforeStores ==
    /\ \A i \in DOMAIN boot.log :
        /\ boot.log[i] = "drop_priv" => Before(boot.log, "bind", i)
        /\ boot.log[i] \in StoreOps => Before(boot.log, "drop_priv", i)
    /\ boot.privileged => \A i \in DOMAIN boot.log : boot.log[i] \notin StoreOps

\* a boot that returned after each of the store operations
C17_Witness ==
    /\ boot.pc = "returned"
    /\ ~boot.privileged
    /\ boot.bound
    /\ \A op \in StoreOps : \E i \in DOMAIN boot.log : boot.log[i] = op

\* C18 as stated: boot aborts only in the path, bind, extend_config and core
\* steps (stages 1, 4, 6 and 11); a failure anywhere else, a configuration
\* file that cannot be read or parsed included, leaves boot running.
C18_FatalStages ==
    boot.pc = "failed" => boot.at \in {"path", "bind", "extend", "core"}

\* C19 as stated: when version.spam-filter is absent and the fetch of the
\* rule pack fails, the configuration carries the build error of the fetch
\* and no default setting is inserted or handed to ConfigManager::set.
C19_NoDefaultsOnFetchFailure ==
    (boot.fetch = "err" /\ boot.pc \in {"webadmin", "persist", "lookups", "core",
                                        "acceptors", "returned"}) =>
        /\ "Failed to fetch spam filter" \in boot.config.errors
        /\ \A i \in DOMAIN boot.insert_keys : boot.insert_keys[i].key \notin DefaultKeys
        /\ \A i \in DOMAIN boot.set_keys : boot.set_keys[i].key \notin DefaultKeys
        /\ \A k \in DefaultKeys :
            Present(boot.config.keys, k) =>
                Present(boot.before, k) /\ boot.config.keys[k] = boot.before[k]

\* C20 as stated: every key the seeding inserts into the configuration was
\* absent or empty right before the seeding, so no setting is overwritten.
C20_SeedsOnlyMissing ==
    boot.pc \in {"lookups", "core", "acceptors", "returned"} =>
        /\ \A i \in DOMAIN boot.insert_keys :
            Missing(boot.before, boot.insert_keys[i].key)
        /\ \A k \in DOMAIN boot.before :
            boot.before[k] # "" => boot.config.keys[k] = boot.before[k]

\* the second boot has returned
SecondReturned == boot.run = 2 /\ boot.pc = "returned"

SetCalled(b) == \E i \in DOMAIN b.log : b.log[i] = "set"

\* the second boot seeded nothing: no key inserted, no fetch, no set, and
\* the hostname and the OAuth key are those of the first boot
SeededNothing ==
    /\ boot.insert_keys = <<>>
    /\ boot.fetch = "skipped"
    /\ ~SetCalled(boot)
    /\ \A k \in {HostnameKey, OAuthKey} :
        /\ Present(boot.config.keys, k)
        /\ boot.config.keys[k] = boot.prev[1].config.keys[k]

SeededKeys == {boot.insert_keys[i].key : i \in DOMAIN boot.insert_keys}

SetFailed(b) == "Failed to update configuration" \in b.config.errors

InStore(k) == Present(boot.store, k) /\ boot.store[k] = boot.config.keys[k]

\* C22 as stated: when boot completes every seeded key has a non-empty value
\* in the returned Config, and with a backing data store the store holds the
\* same value, also when ConfigManager::set reported an error.
C22_SeededAndStored ==
    boot.pc = "returned" =>
        \A k \in SeededKeys :
            /\ ~Missing(boot.config.keys, k)
            /\ boot.cfg_store => InStore(k)

\* C22 amended: when boot completes every seeded key has a non-empty value
\* in the returned Config; with a backing data store the store holds the
\* same value when ConfigManager::set returned Ok.
C22_SeededAndStoredOnOk ==
    boot.pc = "returned" =>
        \A k \in SeededKeys :
            /\ ~Missing(boot.config.keys, k)
            /\ (boot.cfg_store /\ ~SetFailed(boot)) => InStore(k)

\* a boot that found an empty hostname in the file, seeded it with the
\* defaults and the OAuth key, and stored them
C22_Witness ==
    /\ boot.pc = "returned"
    /\ boot.cfg_store
    /\ ~SetFailed(boot)
    /\ Present(boot.before, HostnameKey)
    /\ {HostnameKey, OAuthKey} \cup DefaultKeys \subseteq SeededKeys
    /\ \A k \in SeededKeys : InStore(k)

\* the words of the command line that give a value to --key
ValuesOf(args, key) ==
    {IF args[i].eq THEN args[i].value ELSE args[i + 1].key :
        i \in {j \in DOMAIN args : /\ args[j].dashes
                                   /\ args[j].key = key
                                   /\ (args[j].eq \/ j < Len(args))}}

MissingConfig == "Missing parameter --config=<path-to-config>."

Precedes(ops, x, y) ==
    \E i, j \in DOMAIN ops : i < j /\ ops[i] = x /\ ops[j] = y

\* C25 as stated: every dispatched action that spawns a task has called
\* queue.schedule for its next occurrence before the spawn.
C25_ScheduleBeforeSpawn ==
    \A f \in last.disp.fired :
        Has(f.ops, "spawn") => Precedes(f.ops, "schedule", "spawn")

\* C25 amended: Store schedules its next occurrence and then spawns the
\* purge; Account and Session spawn the purge and then schedule, in the
\* same step and with no await between the two; Acme only spawns.
C25_ScheduleOrder ==
    \A f \in last.disp.fired :
        /\ (f.event.kind = "Store" /\ f.ops # <<>>) => f.ops = <<"schedule", "spawn">>
        /\ f.event.kind \in {"Account", "Session"} => f.ops = <<"spawn", "schedule">>
        /\ f.event.kind = "Acme" => f.ops = <<"spawn">>

\* one drain dispatched a Store, which scheduled first, and a Session,
\* which spawned first
C25_Witness ==
    /\ last.op = "DrainEnd"
    /\ \E f, g \in last.disp.fired :
        /\ f.event.kind = "Store" /\ Precedes(f.ops, "schedule", "spawn")
        /\ g.event = Session /\ Precedes(g.ops, "spawn", "schedule")
    /\ CountOf(queue, Session) = 1
    /\ CountOf(queue, Store(0)) = 1

\* an action of the class is in the queue and its due time has passed
Overdue(c) == \E a \in BagToSet(queue) : a.event = c /\ a.due <= now

\* C26 as stated: an action whose due time has passed is eventually
\* dispatched unless the scheduler exits, also when events keep arriving.
C26_OverdueDispatched ==
    \A c \in {Session, Account} : Overdue(c) ~> (~Overdue(c) \/ pc = "exit")

\* renewal tasks of a provider that have not posted their AcmeReschedule
RenewalsInFlight(id) ==
    BagCardinality([tk \in {x \in BagToSet(tasks) : x.kind = "renew" /\ x.id = id}
                        |-> tasks[tk]])

\* C27 as stated: for each provider at most one renewal task is in flight
\* at any time.
C27_OneRenewal == \A id \in Providers : RenewalsInFlight(id) <= 1

Leaving == {Store(i) : i \in StoreIdx} \cup {ReloadLicense}

\* the handler of the fired action f found nothing and scheduled nothing:
\* a Store without its schedule, a ReloadLicense whose reload was answered
\* without a licensed new core
FoundNothing(f) ==
    /\ f.event \in Leaving
    /\ ~Has(f.ops, "schedule")

\* a class that found nothing is absent from the queue when the drain ends
AbsentAfter ==
    last.op = "DrainEnd" =>
        \A f \in last.disp.fired : FoundNothing(f) => CountOf(queue, f.event) = 0

\* in the loop, outside the handler of ReloadLicense, no step of the
\* scheduler puts back a Store or ReloadLicense class that is not queued
StaysOut ==
    pc \in {"wait", "exit"} =>
        \A c \in Leaving : CountOf(queue, c) = 0 => CountOf(queue', c) = 0

\* when Acme(id) fired with its provider absent from the snapshot, no
\* renewal task of id is left that will post an AcmeReschedule of its own
OnlyByAcmeReload ==
    last.op = "DrainEnd" =>
        \A f \in last.disp.fired :
            (f.event.kind = "Acme" /\ f.event.arg \notin core_.providers)
            => RenewalsInFlight(f.event.arg) = 0

\* C29 as stated: a Store(i) that fires without schedule i and a
\* ReloadLicense whose reload fails, gives no new core or gives a core
\* without license are absent from the queue and are never inserted again;
\* an Acme(id) that fired with its provider absent comes back only by an
\* AcmeReschedule of an AcmeReload task.
C29_LeavesForGood == [](AbsentAfter /\ OnlyByAcmeReload) /\ [][StaysOut]_vars

\* the part of C29 about Store and ReloadLicense
C29_StoreAndLicenseLeave == []AbsentAfter /\ [][StaysOut]_vars

====
